---- MODULE Spec2Model ----
(***************************************************************************)
(* Model of gocb's Cluster (cluster.go): the registry of bucket-level      *)
(* clients (c.connections), the cluster-level client (c.clusterClient),    *)
(* the two locks, the reference on the tracer, and the operations Bucket,  *)
(* clusterOrRandomClient / randomClient, WaitUntilReady and Close, each    *)
(* split at the points where another goroutine can interleave.             *)
(***************************************************************************)
EXTENDS Integers, Sequences, FiniteSets, TLC

\* ------------------------------------------------------------------ bounds
MaxThreads == 2
MaxBuckets == 2
MaxClients == 2
MaxTimeoutsSet == 1
MaxOptionKeys == 2

Threads == 1..MaxThreads
BucketNames == 1..MaxBuckets

\* ------------------------------------------------------------- vocabulary
\* nil client / nil error / no goroutine
NilClient == 0
NilError == <<"nil", 0>>
NoThread == 0

\* errors.New("not connected to cluster")              (randomClient)
NotConnectedError == <<"not connected to cluster", 0>>
\* errors.New("cluster is not connected")              (WaitUntilReady)
ClusterNotConnectedError == <<"cluster is not connected", 0>>
\* errors.New("the cluster does not support cluster-level queries ...")
NoClusterLevelQueriesError == <<"the cluster does not support cluster-level queries", 0>>
\* the error a transport call on client h returns, one per call kind
ClientError(kind, h) == <<kind, h>>

\* The cache key of a bucket's client state block (b.hash(), sb.Hash()): a
\* deterministic function of the bucket name under the cluster's fixed
\* configuration.
Hash(bucketName) == <<"bucket", bucketName>>

Fingerprints == {Hash(n) : n \in BucketNames}

\* ------------------------------------------------- int64 and time.Duration
\* An int64 (and so a time.Duration, in nanoseconds) is its 8 bytes, least
\* significant first, in two's complement; arithmetic wraps as Go's does.
ByteBase == 256
Int64Bytes == 8

\* The natural number n, below 2^31, in w bytes.
RECURSIVE FromNat(_, _)
FromNat(n, w) ==
  IF w = 0 THEN <<>> ELSE <<n % ByteBase>> \o FromNat(n \div ByteBase, w - 1)

Int64(n) == FromNat(n, Int64Bytes)

IsNegative(x) == x[Len(x)] >= ByteBase \div 2
IsZero(x) == \A i \in 1..Len(x) : x[i] = 0
\* d > 0
IsPositive(x) == ~IsNegative(x) /\ ~IsZero(x)

\* x + y on Len(x) bytes, the carry out of the last byte dropped.
RECURSIVE AddFrom(_, _, _, _)
AddFrom(x, y, i, carry) ==
  IF i > Len(x)
    THEN <<>>
    ELSE LET sum == x[i] + y[i] + carry
         IN <<sum % ByteBase>> \o AddFrom(x, y, i + 1, sum \div ByteBase)

Add(x, y) == AddFrom(x, y, 1, 0)

\* -x
Negate(x) == Add([i \in 1..Len(x) |-> ByteBase - 1 - x[i]], FromNat(1, Len(x)))

\* The sum of the byte products x[j] * y[i + 1 - j] that fall on byte i.
RECURSIVE Column(_, _, _, _)
Column(x, y, i, j) ==
  IF j > i THEN 0 ELSE x[j] * y[i + 1 - j] + Column(x, y, i, j + 1)

\* x * y on Len(x) bytes, the bytes above dropped.
RECURSIVE MulFrom(_, _, _, _)
MulFrom(x, y, i, carry) ==
  IF i > Len(x)
    THEN <<>>
    ELSE LET sum == Column(x, y, i, 1) + carry
         IN <<sum % ByteBase>> \o MulFrom(x, y, i + 1, sum \div ByteBase)

Mul(x, y) == MulFrom(x, y, 1, 0)

\* time.Millisecond, time.Second
Millisecond == Int64(1000000)
Second == Mul(Int64(1000), Millisecond)

\* ------------------------------------------------------- strconv.ParseInt
\* A string is the sequence of its characters.
DigitChars == <<"0", "1", "2", "3", "4", "5", "6", "7", "8", "9">>
IsDigit(c) == \E d \in 1..Len(DigitChars) : DigitChars[d] = c
DigitOf(c) == (CHOOSE d \in 1..Len(DigitChars) : DigitChars[d] = c) - 1

\* x * k + carry for a small k, on Len(x) bytes, from byte i on.
RECURSIVE ScaleFrom(_, _, _, _)
ScaleFrom(x, k, i, carry) ==
  IF i > Len(x)
    THEN <<>>
    ELSE LET sum == x[i] * k + carry
         IN <<sum % ByteBase>> \o ScaleFrom(x, k, i + 1, sum \div ByteBase)

\* ParseUint's loop over the digits from the i-th: n = n*10 + d on 64 bits,
\* with a range error as soon as that does not fit.
RECURSIVE parseDigits(_, _, _)
parseDigits(digits, i, n) ==
  IF i > Len(digits)
    THEN [err |-> "nil", val |-> n]
    ELSE LET wide == ScaleFrom(n \o <<0>>, 10, 1, DigitOf(digits[i]))
         IN IF wide[Int64Bytes + 1] # 0
              THEN [err |-> "range", val |-> n]
              ELSE parseDigits(digits, i + 1, SubSeq(wide, 1, Int64Bytes))

\* ParseInt on the unsigned value un of the digits: a range error when the
\* signed value is outside int64.
signedValue(neg, un) ==
  IF un.err # "nil"
    THEN [err |-> "range", val |-> Int64(0)]
    ELSE IF neg
      THEN IF ~IsNegative(un.val) \/ un.val = Negate(un.val)
             THEN [err |-> "nil", val |-> Negate(un.val)]
             ELSE [err |-> "range", val |-> Int64(0)]
      ELSE IF ~IsNegative(un.val)
             THEN [err |-> "nil", val |-> un.val]
             ELSE [err |-> "range", val |-> Int64(0)]

\* strconv.ParseInt(s, 10, 64): an optional sign, then decimal digits only;
\* a syntax error on anything else, a range error outside int64.
ParseInt(s) ==
  LET signed == s # <<>> /\ s[1] \in {"+", "-"}
      digits == IF signed THEN Tail(s) ELSE s
  IN IF digits = <<>> \/ \E i \in 1..Len(digits) : ~IsDigit(digits[i])
       THEN [err |-> "syntax", val |-> Int64(0)]
       ELSE signedValue(signed /\ s[1] = "-", parseDigits(digits, 1, Int64(0)))

\* ------------------------------------------------------------------ state
VARIABLES
  clients,          \* every client ever made by newClient, by id (1 = cluster-level)
  connections,      \* c.connections: fingerprint -> client id (NilClient = absent)
  clusterClient,    \* c.clusterClient
  connectionsLock,  \* c.connectionsLock: [writer, readers]
  clusterLock,      \* c.clusterLock: the goroutine holding it
  tracer,           \* c.sb.Tracer # nil
  tracerRefs,       \* references held on the tracer on behalf of this Cluster
  crashed,          \* the process died (nil dereference, concurrent map access)
  pc,               \* per goroutine: where it is
  arg,              \* per goroutine: bucketName of the running Bucket call,
                    \*   opts.DesiredState of the running WaitUntilReady
  cli,              \* per goroutine: local variable cli / randomClient
  scanned,          \* per goroutine: what randomClient's range has produced, in order
  firstError,       \* per goroutine: firstError of the running randomClient
  overallErr,       \* per goroutine: overallErr of the running Close
  pending,          \* per goroutine: the clients in the map when Close's range began
  closeLog,         \* per goroutine: the closes the running Close made, in order
  returned,         \* what the step just taken returned to its caller, if it
                    \*   did, or the close() it made on the way and logged
  buckets,          \* every Bucket returned so far: <<fingerprint, client id>>
  closeCalled,      \* Close was called
  bucketAfterClose, \* a Bucket call ran while, or after, Close was called
  opts,             \* Connect's opts.TimeoutsConfig
  connSpec,         \* Connect's parsed connection string: Scheme, Options
  sb,               \* the timeouts of c.sb
  connectPc,        \* where Connect is
  connectErr        \* the error Connect returned

vars == <<clients, connections, clusterClient, connectionsLock, clusterLock, tracer,
          tracerRefs, crashed, pc, arg, cli, scanned, firstError, overallErr, pending,
          closeLog, returned, buckets, closeCalled, bucketAfterClose, opts, connSpec,
          sb, connectPc, connectErr>>

shared == <<clients, connections, clusterClient, tracer, tracerRefs>>
locks == <<connectionsLock, clusterLock>>
history == <<buckets, closeCalled, bucketAfterClose>>
locals == <<arg, cli, scanned, firstError, overallErr, pending, closeLog>>
construction == <<opts, connSpec, sb, connectPc, connectErr>>

\* A return: the operation, the client and the error returned, and what the
\* call went through (the entries its range produced, in order).
\* A provider is the client it was taken from, seen as one capability.
NoProvider == [class |-> "none", cli |-> NilClient]
NoReturn ==
  [op |-> "none", cli |-> NilClient, err |-> NilError, log |-> <<>>,
   provider |-> NoProvider, providerErr |-> NilError]
Result(o, c, e, l) ==
  [op |-> o, cli |-> c, err |-> e, log |-> l,
   provider |-> NoProvider, providerErr |-> NilError]

\* newClient(cluster, csb): a client with no bootstrap error yet.
newClient(bucket) ==
  [bucket |-> bucket, bootstrapError |-> NilError, gcccp |-> FALSE, closed |-> FALSE]

ClientIds == 1..Len(clients)
BucketClients == 2..Len(clients)
Registered == {f \in Fingerprints : connections[f] # NilClient}

\* ------------------------------------------------- the timeouts of c.sb
\* The fields of TimeoutsConfig, and of c.sb under the same names.
TimeoutNames ==
  {"ConnectTimeout", "KVTimeout", "KVDurableTimeout", "ViewTimeout", "QueryTimeout",
   "AnalyticsTimeout", "SearchTimeout", "ManagementTimeout"}

\* The defaults of clusterFromOptions, in milliseconds.
DefaultMillis ==
  [ConnectTimeout |-> 10000, KVTimeout |-> 2500, KVDurableTimeout |-> 10000,
   ViewTimeout |-> 75000, QueryTimeout |-> 75000, AnalyticsTimeout |-> 75000,
   SearchTimeout |-> 75000, ManagementTimeout |-> 75000]

\* clusterFromOptions: a timeout of the options is taken when it is > 0, the
\* default otherwise.
clusterFromOptions(o) ==
  [n \in TimeoutNames |->
     IF IsPositive(o[n]) THEN o[n] ELSE Mul(Int64(DefaultMillis[n]), Millisecond)]

\* The keys parseExtraConnStrOptions reads, in the order it reads them, and
\* the timeout each one sets.
OptionKeys == <<"query_timeout", "analytics_timeout", "search_timeout", "view_timeout">>
OptionTimeout ==
  [query_timeout |-> "QueryTimeout", analytics_timeout |-> "AnalyticsTimeout",
   search_timeout |-> "SearchTimeout", view_timeout |-> "ViewTimeout"]

\* fmt.Errorf("<key> option must be a number")
OptionError(key) == <<"option must be a number", key>>

\* fetchOption: the last value given for the key, if any was.
fetchOption(options, name) ==
  LET optValue == options[name]
  IN IF Len(optValue) = 0
       THEN [ok |-> FALSE, valStr |-> <<>>]
       ELSE [ok |-> TRUE, valStr |-> optValue[Len(optValue)]]

\* time.Duration(val) * time.Millisecond
millis(val) == Mul(val, Millisecond)

\* parseExtraConnStrOptions from the i-th key on: c.sb as it leaves it, and
\* the error it returns.
RECURSIVE parseFrom(_, _, _)
parseFrom(block, options, i) ==
  IF i > Len(OptionKeys)
    THEN [sb |-> block, err |-> NilError]
    ELSE LET key == OptionKeys[i]
             opt == fetchOption(options, key)
             parsed == ParseInt(opt.valStr)
         IN IF ~opt.ok
              THEN parseFrom(block, options, i + 1)
              ELSE IF parsed.err # "nil"
                THEN [sb |-> block, err |-> OptionError(key)]
                ELSE parseFrom([block EXCEPT ![OptionTimeout[key]] = millis(parsed.val)],
                               options, i + 1)

parseExtraConnStrOptions(block, options) == parseFrom(block, options, 1)

\* A TimeoutsConfig left unset, and a connection string with no options.
NoTimeouts == [n \in TimeoutNames |-> Int64(0)]
NoOptions == [k \in {OptionKeys[i] : i \in 1..Len(OptionKeys)} |-> <<>>]

\* Connect has returned a Cluster, here on default options: the cluster-level
\* client was built and connected and stored in c.clusterClient, whether or
\* not it supports GCCCP; clusterFromOptions took one reference on the tracer
\* and made an empty c.connections.
Init ==
  /\ opts = NoTimeouts
  /\ connSpec = [Scheme |-> "couchbase", Options |-> NoOptions]
  /\ sb = parseExtraConnStrOptions(clusterFromOptions(NoTimeouts), NoOptions).sb
  /\ connectPc = "returned"
  /\ connectErr = NilError
  /\ \E g \in BOOLEAN : clients = <<[newClient(0) EXCEPT !.gcccp = g]>>
  /\ connections = [f \in Fingerprints |-> NilClient]
  /\ clusterClient = 1
  /\ connectionsLock = [writer |-> NoThread, readers |-> {}]
  /\ clusterLock = NoThread
  /\ tracer = TRUE
  /\ tracerRefs = 1
  /\ crashed = FALSE
  /\ pc = [t \in Threads |-> "idle"]
  /\ arg = [t \in Threads |-> 0]
  /\ cli = [t \in Threads |-> NilClient]
  /\ scanned = [t \in Threads |-> <<>>]
  /\ firstError = [t \in Threads |-> NilError]
  /\ overallErr = [t \in Threads |-> NilError]
  /\ pending = [t \in Threads |-> {}]
  /\ closeLog = [t \in Threads |-> <<>>]
  /\ returned = NoReturn
  /\ buckets = {}
  /\ closeCalled = FALSE
  /\ bucketAfterClose = FALSE

At(t, p) == ~crashed /\ pc[t] = p

\* A Bucket that keeps c.connectionsLock from getClient until the new client
\* is registered, buildConfig() and connect() included.
CanLock_HeldWhileConnecting ==
  /\ connectionsLock.writer = NoThread
  /\ connectionsLock.readers = {}
  /\ \A u \in Threads : pc[u] # "b_connect"

\* sync.RWMutex
CanLock == connectionsLock.writer = NoThread /\ connectionsLock.readers = {}
CanRLock == connectionsLock.writer = NoThread

\* A call begins on an idle goroutine.  Idle goroutines are alike, so the
\* call is put on the first of them.
Begin(t) ==
  /\ At(t, "idle")
  /\ \A u \in Threads : u < t => pc[u] # "idle"

\* The locals of a call that returned are gone.
Idle(f, t, zero) == [f EXCEPT ![t] = zero]

\* The call of goroutine t returns r to its caller.
Return(t, r) ==
  /\ returned' = r
  /\ pc' = Idle(pc, t, "idle")
  /\ arg' = Idle(arg, t, 0)
  /\ cli' = Idle(cli, t, NilClient)
  /\ scanned' = Idle(scanned, t, <<>>)
  /\ firstError' = Idle(firstError, t, NilError)
  /\ overallErr' = Idle(overallErr, t, NilError)
  /\ pending' = Idle(pending, t, {})
  /\ closeLog' = Idle(closeLog, t, <<>>)

\* The call of goroutine t goes on at p.
Goto(t, p) ==
  /\ returned' = NoReturn
  /\ pc' = [pc EXCEPT ![t] = p]

\* A close() of client h returns nil or an error.
CloseOutcomes(h) == {NilError, ClientError("close", h)}

\* client.close() on client h.
closeClient(cs, h) == [cs EXCEPT ![h].closed = TRUE]

\* ------------------------------------------------------------ Cluster.Bucket
\* Where a goroutine inside Cluster.Bucket can be.
BucketPcs == {"b_get", "b_connect"}

\* Bucket names are alike: a name not used before is the next one.
UsedNames ==
  {clients[h].bucket : h \in BucketClients}
    \cup {arg[u] : u \in {v \in Threads : pc[v] \in BucketPcs}}

\* A Bucket whose test of supportsGCCCP() lost its negation.
retires_WhenSupported(h) == h # NilClient /\ clients[h].gcccp

\* if c.clusterClient != nil && !c.clusterClient.supportsGCCCP()
retires(h) == h # NilClient /\ ~clients[h].gcccp

\* A Bucket that keeps the cluster-level client whatever it supports.
retire_KeepsClient(h, err) == h

\* A Bucket that keeps the cluster-level client when its close() fails.
retire_UnlessCloseFails(h, err) == IF err # NilError THEN h ELSE NilClient

\* c.clusterClient after Bucket has closed the cluster-level client h that
\* does not support GCCCP, close() having returned err, which is only logged.
retire(h, err) == NilClient

\* The call begins: c.connectionsLock.Lock(); a cluster-level client that
\* does not support GCCCP is closed and c.clusterClient set to nil;
\* c.connectionsLock.Unlock().
BucketRetire(t, bucketName) ==
  /\ Begin(t)
  /\ CanLock
  /\ bucketName = 1 \/ bucketName - 1 \in UsedNames
  /\ pc' = [pc EXCEPT ![t] = "b_get"]
  /\ arg' = [arg EXCEPT ![t] = bucketName]
  /\ IF retires(clusterClient)
       THEN \E err \in CloseOutcomes(clusterClient) :
              /\ clients' = closeClient(clients, clusterClient)
              /\ clusterClient' = retire(clusterClient, err)
              /\ returned' = Result("retire", clusterClient, err, <<>>)
       ELSE /\ returned' = NoReturn
            /\ UNCHANGED <<clients, clusterClient>>
  /\ bucketAfterClose' = (bucketAfterClose \/ closeCalled)
  /\ UNCHANGED <<connections, tracer, tracerRefs, locks, crashed, cli, scanned,
                 firstError, overallErr, pending, closeLog, buckets, closeCalled>>
  /\ UNCHANGED construction

\* A getClient that never finds the registered client.
getClient_NeverFinds(hash) == NilClient

\* getClient: the registered client of this hash, or nil.
getClient(hash) == connections[hash]

\* cli := c.getClient(...) under the lock; a hit is shared and returned.
BucketGetClient(t) ==
  /\ At(t, "b_get")
  /\ CanLock
  /\ LET hash == Hash(arg[t])
         found == getClient(hash)
     IN IF found # NilClient
          THEN /\ buckets' = buckets \cup {<<hash, found>>}
               /\ Return(t, Result("Bucket", found, NilError, <<"sharing", arg[t]>>))
          ELSE /\ Goto(t, "b_connect")
               /\ UNCHANGED <<buckets, locals>>
  /\ UNCHANGED <<shared, locks, crashed, closeCalled, bucketAfterClose>>
  /\ UNCHANGED construction

\* What buildConfig() and connect() of the new client h end with.
BootstrapOutcomes(h) ==
  {NilError, ClientError("buildConfig", h), ClientError("connect", h)}

\* cli = newClient(...); buildConfig(); connect(); setBootstrapError(err):
\* the new client after an attempt that ended with err.
bootstrap(bucket, err) == [newClient(bucket) EXCEPT !.bootstrapError = err]

\* c.connections[b.hash()] = cli
register(hash, h) == [connections EXCEPT ![hash] = h]

\* The new bucket-level client is made and connected outside any lock, known
\* to this goroutine alone; then it is registered under the lock and returned
\* in the Bucket.  At most MaxClients bucket-level clients are ever made.
BucketInsert(t) ==
  /\ At(t, "b_connect")
  /\ CanLock
  /\ Len(clients) <= MaxClients
  /\ LET h == Len(clients) + 1
     IN /\ \E err \in BootstrapOutcomes(h) :
             clients' = Append(clients, bootstrap(arg[t], err))
        /\ connections' = register(Hash(arg[t]), h)
        /\ buckets' = buckets \cup {<<Hash(arg[t]), h>>}
        /\ Return(t, Result("Bucket", h, NilError, <<"creating", arg[t]>>))
  /\ UNCHANGED <<clusterClient, tracer, tracerRefs, locks, crashed, closeCalled,
                 bucketAfterClose>>
  /\ UNCHANGED construction

\* ------------------------------------- clusterOrRandomClient / randomClient
\* A clusterOrRandomClient that does not look at supportsGCCCP().
clusterLevelResult_NoGCCCPCheck(h) ==
  Result("clusterOrRandomClient", h, NilError, <<>>)

\* clusterOrRandomClient on a non-nil cluster-level client h: the client
\* itself when it supports GCCCP, an error otherwise.
clusterLevelResult(h) ==
  IF clients[h].gcccp
    THEN Result("clusterOrRandomClient", h, NilError, <<>>)
    ELSE Result("clusterOrRandomClient", NilClient, NoClusterLevelQueriesError, <<>>)

\* The provider getters of the Cluster, one per class of request.
RequestClasses == {"diagnostics", "query", "analytics", "search", "http"}

\* What the client's own accessor answers: the provider, or an error.
AccessorOutcomes == {"provider", "unsupported"}

\* Getters that all ask the client for its query provider.
getProvider_AlwaysQuery(class, r, acc) ==
  IF r.err # NilError
    THEN [r EXCEPT !.providerErr = r.err]
    ELSE IF acc = "unsupported"
      THEN [r EXCEPT !.providerErr = ClientError("getProvider", r.cli)]
      ELSE [r EXCEPT !.provider = [class |-> "query", cli |-> r.cli]]

\* get<Class>Provider: cli, err := c.clusterOrRandomClient() returned r; its
\* error is returned as it is; otherwise cli.get<Class>Provider() is asked
\* and its provider, or its error, returned.
getProvider(class, r, acc) ==
  IF r.err # NilError
    THEN [r EXCEPT !.providerErr = r.err]
    ELSE IF acc = "unsupported"
      THEN [r EXCEPT !.providerErr = ClientError("getProvider", r.cli)]
      ELSE [r EXCEPT !.provider = [class |-> class, cli |-> r.cli]]

\* A provider getter returns: the class of the getter and the answer of the
\* client's accessor come into play only here.
Provide(t, r) ==
  \E res \in {getProvider(class, r, acc) :
                class \in RequestClasses, acc \in AccessorOutcomes} :
    Return(t, res)

\* The call begins: c.clusterClient is read under the read lock.  A non-nil
\* client decides the call.  On nil, randomClient takes the read lock: an
\* empty registry is "not connected", otherwise the range begins.
ResolveSlot(t) ==
  /\ Begin(t)
  /\ CanRLock
  /\ IF clusterClient # NilClient
       THEN /\ Provide(t, clusterLevelResult(clusterClient))
            /\ UNCHANGED connectionsLock
       ELSE IF Registered = {}
         THEN /\ Provide(t, Result("randomClient", NilClient, NotConnectedError, <<>>))
              /\ UNCHANGED connectionsLock
         ELSE /\ Goto(t, "r_scan")
              /\ connectionsLock' = [connectionsLock EXCEPT !.readers = @ \cup {t}]
              /\ UNCHANGED locals
  /\ UNCHANGED <<shared, clusterLock, crashed, history>>
  /\ UNCHANGED construction

\* What connected() of a client reports: connected, not connected, an error.
\* It is asked only of a client with no bootstrap error.
ConnectedOutcomes(h) ==
  IF clients[h].bootstrapError # NilError THEN {"unasked"} ELSE {"up", "down", "error"}

\* A range that selects any client whose connected() returned no error,
\* connected or not.
scanVisit_IgnoresConnected(h, conn, fe) ==
  IF clients[h].bootstrapError # NilError
    THEN [cli |-> NilClient,
          firstError |-> IF fe = NilError THEN clients[h].bootstrapError ELSE fe]
    ELSE IF conn = "error"
      THEN [cli |-> NilClient,
            firstError |-> IF fe = NilError THEN ClientError("connected", h) ELSE fe]
      ELSE [cli |-> h, firstError |-> fe]

\* A range that keeps the last error it meets, not the first.
scanVisit_KeepsLastError(h, conn, fe) ==
  IF clients[h].bootstrapError # NilError
    THEN [cli |-> NilClient, firstError |-> clients[h].bootstrapError]
    ELSE IF conn = "error"
      THEN [cli |-> NilClient, firstError |-> ClientError("connected", h)]
      ELSE IF conn = "up"
        THEN [cli |-> h, firstError |-> fe]
        ELSE [cli |-> NilClient, firstError |-> fe]

\* One iteration of the range over c.connections on client h whose
\* connected() reports `conn`, with firstError = fe so far: the client
\* selected (or nil) and the new firstError.
scanVisit(h, conn, fe) ==
  IF clients[h].bootstrapError # NilError
    THEN [cli |-> NilClient,
          firstError |-> IF fe = NilError THEN clients[h].bootstrapError ELSE fe]
    ELSE IF conn = "error"
      THEN [cli |-> NilClient,
            firstError |-> IF fe = NilError THEN ClientError("connected", h) ELSE fe]
      ELSE IF conn = "up"
        THEN [cli |-> h, firstError |-> fe]
        ELSE [cli |-> NilClient, firstError |-> fe]

\* The entries of the map the range of goroutine t has not produced yet.
Unscanned(t) ==
  {f \in Registered : \A i \in 1..Len(scanned[t]) : scanned[t][i][1] # connections[f]}

\* The range produces, in no specified order, an entry it has not produced.
RandomScan(t) ==
  /\ At(t, "r_scan")
  /\ cli[t] = NilClient
  /\ \E f \in Unscanned(t) : \E conn \in ConnectedOutcomes(connections[f]) :
       LET v == scanVisit(connections[f], conn, firstError[t])
       IN /\ cli' = [cli EXCEPT ![t] = v.cli]
          /\ firstError' = [firstError EXCEPT ![t] = v.firstError]
          /\ scanned' = [scanned EXCEPT ![t] = Append(@, <<connections[f], conn>>)]
  /\ returned' = NoReturn
  /\ UNCHANGED <<shared, locks, crashed, pc, arg, overallErr, pending, closeLog,
                 history>>
  /\ UNCHANGED construction

\* What randomClient returns after the loop that produced `log`.
randomResult(selected, fe, log) ==
  IF selected = NilClient
    THEN IF fe = NilError
           THEN Result("randomClient", NilClient, NotConnectedError, log)
           ELSE Result("randomClient", NilClient, fe, log)
    ELSE Result("randomClient", selected, NilError, log)

\* A randomClient that returns without c.connectionsLock.RUnlock().
RUnlock_Forgotten(t) == connectionsLock

\* c.connectionsLock.RUnlock() by goroutine t.
RUnlock(t) == [connectionsLock EXCEPT !.readers = @ \ {t}]

\* The loop ends (break, or nothing left); RUnlock; return.
RandomFinish(t) ==
  /\ At(t, "r_scan")
  /\ cli[t] # NilClient \/ Unscanned(t) = {}
  /\ connectionsLock' = RUnlock(t)
  /\ Provide(t, randomResult(cli[t], firstError[t], scanned[t]))
  /\ UNCHANGED <<shared, clusterLock, crashed, history>>
  /\ UNCHANGED construction

\* --------------------------------------------------- Cluster.WaitUntilReady
\* ClusterState: 0 is a DesiredState left unset; the states proper are
\* numbered from ClusterStateOnline.
UnsetState == 0
ClusterStateOnline == 1
ClusterStateDegraded == 2
DesiredStates == {UnsetState, ClusterStateOnline, ClusterStateDegraded}

\* A WaitUntilReady that passes an unset DesiredState on as it is.
desiredState_KeepsUnset(ds) == ds

\* desiredState := opts.DesiredState; if desiredState == 0 { ...Online }
desiredState(ds) == IF ds = UnsetState THEN ClusterStateOnline ELSE ds

\* The call begins: cli := c.clusterClient, read without any lock; a nil
\* there ends the call.
WaitRead(t, ds) ==
  /\ Begin(t)
  /\ IF clusterClient = NilClient
       THEN Return(t, Result("WaitUntilReady", NilClient, ClusterNotConnectedError, <<>>))
       ELSE /\ Goto(t, "w_wait")
            /\ cli' = [cli EXCEPT ![t] = clusterClient]
            /\ arg' = [arg EXCEPT ![t] = ds]
            /\ UNCHANGED <<scanned, firstError, overallErr, pending, closeLog>>
  /\ UNCHANGED <<shared, locks, crashed, history>>
  /\ UNCHANGED construction

\* What provider.WaitUntilReady of client h returns: ready in time, or not.
WaitOutcomes(h) == {NilError, ClientError("timeout", h)}

\* What WaitUntilReady returns on client h asked for ds: the error of
\* getWaitUntilReadyProvider, the provider not being called, or what the
\* provider returns when called with the desired state.
waitResults(h, ds) ==
  {Result("WaitUntilReady", h, ClientError("provider", h), <<>>)}
    \cup {Result("WaitUntilReady", h, e, <<desiredState(ds)>>) : e \in WaitOutcomes(h)}

WaitProvider(t) ==
  /\ At(t, "w_wait")
  /\ \E r \in waitResults(cli[t], arg[t]) : Return(t, r)
  /\ UNCHANGED <<shared, locks, crashed, history>>
  /\ UNCHANGED construction

\* ------------------------------------------------------------ Cluster.Close
\* The call begins: c.clusterLock.Lock(); the range starts over the entries
\* present now.
CloseLock(t) ==
  /\ Begin(t)
  /\ clusterLock = NoThread
  /\ clusterLock' = t
  /\ closeCalled' = TRUE
  /\ bucketAfterClose' = (bucketAfterClose \/ \E u \in Threads : pc[u] \in BucketPcs)
  /\ Goto(t, "c_range")
  /\ pending' = [pending EXCEPT ![t] = {connections[f] : f \in Registered}]
  /\ UNCHANGED <<shared, connectionsLock, crashed, arg, cli, scanned, firstError,
                 overallErr, closeLog, buckets>>
  /\ UNCHANGED construction

\* overallErr after a close() that returned err.
noteCloseError(overall, err) == IF err # NilError THEN err ELSE overall

\* One iteration of Close's range: close the connection, keep its error,
\* delete the key.  An entry added to the map during the range may be
\* produced or skipped.
CloseRange(t) ==
  /\ At(t, "c_range")
  /\ \E f \in Registered : \E err \in CloseOutcomes(connections[f]) :
       /\ clients' = closeClient(clients, connections[f])
       /\ overallErr' = [overallErr EXCEPT ![t] = noteCloseError(@, err)]
       /\ closeLog' = [closeLog EXCEPT ![t] = Append(@, <<connections[f], err>>)]
       /\ connections' = [connections EXCEPT ![f] = NilClient]
  /\ returned' = NoReturn
  /\ UNCHANGED <<clusterClient, tracer, tracerRefs, locks, crashed, pc, arg, cli,
                 scanned, firstError, pending, history>>
  /\ UNCHANGED construction

\* What Close returns: overallErr, after the closes of `log`.
closeResult(overall, log) == Result("Close", NilClient, overall, log)

\* c.clusterLock.Unlock(); if c.sb.Tracer != nil, read without any lock:
\* on to the decrement, or return.
UnlockAndCheckTracer(t, overall, log) ==
  /\ clusterLock' = NoThread
  /\ IF tracer
       THEN /\ Goto(t, "c_decref")
            /\ overallErr' = [overallErr EXCEPT ![t] = overall]
            /\ closeLog' = [closeLog EXCEPT ![t] = log]
            /\ UNCHANGED <<arg, cli, scanned, firstError, pending>>
       ELSE Return(t, closeResult(overall, log))

\* A range that stops at the first close() that fails.
rangeDone_StopsOnError(t) ==
  \/ \A f \in Registered : connections[f] \notin pending[t]
  \/ overallErr[t] # NilError

\* Close's range is over once every entry it had to produce is gone,
\* whatever the closes returned.
rangeDone(t) == \A f \in Registered : connections[f] \notin pending[t]

\* After the range: if c.clusterClient != nil.
CloseSlotCheck(t) ==
  /\ At(t, "c_range")
  /\ rangeDone(t)
  /\ IF clusterClient # NilClient
       THEN /\ Goto(t, "c_slotclose")
            /\ UNCHANGED <<clusterLock, locals>>
       ELSE UnlockAndCheckTracer(t, overallErr[t], closeLog[t])
  /\ UNCHANGED <<shared, connectionsLock, crashed, history>>
  /\ UNCHANGED construction

\* err := c.clusterClient.close(): the field is read again, and a nil there
\* is a nil dereference.
CloseSlotClose(t) ==
  /\ At(t, "c_slotclose")
  /\ IF clusterClient = NilClient
       THEN /\ crashed' = TRUE
            /\ returned' = NoReturn
            /\ UNCHANGED <<clients, clusterLock, pc, locals>>
       ELSE /\ \E err \in CloseOutcomes(clusterClient) :
                 /\ clients' = closeClient(clients, clusterClient)
                 /\ UnlockAndCheckTracer(t, noteCloseError(overallErr[t], err),
                                         Append(closeLog[t], <<clusterClient, err>>))
            /\ UNCHANGED crashed
  /\ UNCHANGED <<connections, clusterClient, tracer, tracerRefs, connectionsLock,
                 history>>
  /\ UNCHANGED construction

\* tracerDecRef(c.sb.Tracer); c.sb.Tracer = nil; return overallErr
CloseTracerDecRef(t) ==
  /\ At(t, "c_decref")
  /\ tracerRefs' = tracerRefs - 1
  /\ tracer' = FALSE
  /\ Return(t, closeResult(overallErr[t], closeLog[t]))
  /\ UNCHANGED <<clients, connections, clusterClient, locks, crashed, history>>
  /\ UNCHANGED construction

\* ----------------------------------------------------------- unsynchronised
\* Close changes c.connections holding only c.clusterLock, while the other
\* operations use it holding c.connectionsLock: when a Close in its range
\* overlaps a map access of another goroutine, the runtime may stop the
\* process ("concurrent map read and map write").
MapAccessPcs == {"b_get", "b_connect", "r_scan"}

ConcurrentMapFault(t, u) ==
  /\ At(t, "c_range")
  /\ Registered # {}
  /\ pc[u] \in MapAccessPcs
  /\ crashed' = TRUE
  /\ returned' = NoReturn
  /\ UNCHANGED <<shared, locks, pc, locals, history>>
  /\ UNCHANGED construction

\* ------------------------------------------------------------ specifications
Call(t) ==
  \/ \E n \in BucketNames : BucketRetire(t, n)
  \/ ResolveSlot(t)
  \/ \E ds \in DesiredStates : WaitRead(t, ds)
  \/ CloseLock(t)

Step(t) ==
  \/ BucketGetClient(t)
  \/ BucketInsert(t)
  \/ RandomScan(t)
  \/ RandomFinish(t)
  \/ WaitProvider(t)
  \/ CloseRange(t)
  \/ CloseSlotCheck(t)
  \/ CloseSlotClose(t)
  \/ CloseTracerDecRef(t)

Next ==
  \E t \in Threads :
    \/ Call(t)
    \/ Step(t)
    \/ \E u \in Threads \ {t} : ConcurrentMapFault(t, u)

\* Any number of goroutines call into one Cluster concurrently.
Spec == Init /\ [][Next]_vars

\* The calls are made one at a time: a call begins only when no other is
\* running.
Quiescent == \A t \in Threads : pc[t] = "idle"

SeqNext ==
  \E t \in Threads :
    \/ Quiescent /\ Call(t)
    \/ Step(t)

SeqSpec == Init /\ [][SeqNext]_vars

\* The goroutines are scheduled fairly and every call into a client returns:
\* a call that has begun takes its next step if that step is possible again
\* and again.  Strong fairness is what sync.RWMutex gives a goroutine waiting
\* in Lock(): readers arriving later queue behind it.
FairSpec == Spec /\ \A t \in Threads : SF_vars(Step(t))

\* ------------------------------------------------------------------ Connect
\* The inputs of Connect.  A caller sets at most MaxTimeoutsSet timeouts of
\* the options, the others being zero; the connection string gives values
\* for at most MaxOptionKeys of the keys.
OptionDurations == {Negate(Int64(1)), Mul(Int64(5), Second)}

TimeoutsConfigs ==
  {o \in [TimeoutNames -> OptionDurations \cup {Int64(0)}] :
     Cardinality({n \in TimeoutNames : o[n] # Int64(0)}) <= MaxTimeoutsSet}

OptionValueLists ==
  { <<<<"5", "0", "0", "0">>>>,
    <<<<"a", "b", "c">>, <<"0">>>>,
    <<<<"7">>, <<"a", "b", "c">>>>,
    <<<<"-", "1">>>>,
    <<<<"9", "2", "2", "3", "3", "7", "2", "0", "3", "6", "8", "5", "5">>>> }

ConnStrOptions ==
  {o \in [DOMAIN NoOptions -> OptionValueLists \cup {<<>>}] :
     Cardinality({k \in DOMAIN NoOptions : o[k] # <<>>}) <= MaxOptionKeys}

Schemes == {"couchbase", "http"}

\* Connect is called: no Cluster exists yet.  Connect returns on the http
\* scheme before it reads anything else, so that scheme is tried with the
\* other inputs unset.
ConnectInit ==
  /\ opts \in TimeoutsConfigs
  /\ \E scheme \in Schemes, options \in ConnStrOptions :
       /\ scheme = "http" => opts = NoTimeouts /\ options = NoOptions
       /\ connSpec = [Scheme |-> scheme, Options |-> options]
  /\ sb = NoTimeouts
  /\ connectPc = "start"
  /\ connectErr = NilError
  /\ clients = <<>>
  /\ connections = [f \in Fingerprints |-> NilClient]
  /\ clusterClient = NilClient
  /\ connectionsLock = [writer |-> NoThread, readers |-> {}]
  /\ clusterLock = NoThread
  /\ tracer = FALSE
  /\ tracerRefs = 0
  /\ crashed = FALSE
  /\ pc = [t \in Threads |-> "idle"]
  /\ arg = [t \in Threads |-> 0]
  /\ cli = [t \in Threads |-> NilClient]
  /\ scanned = [t \in Threads |-> <<>>]
  /\ firstError = [t \in Threads |-> NilError]
  /\ overallErr = [t \in Threads |-> NilError]
  /\ pending = [t \in Threads |-> {}]
  /\ closeLog = [t \in Threads |-> <<>>]
  /\ returned = NoReturn
  /\ buckets = {}
  /\ closeCalled = FALSE
  /\ bucketAfterClose = FALSE

\* What Connect leaves alone at every step.
connectFrame ==
  <<connections, locks, crashed, pc, locals, returned, history, opts, connSpec>>

\* errors.New("http scheme is not supported, ...")
HTTPSchemeError == <<"http scheme is not supported", 0>>

\* The http scheme is refused; otherwise cluster := clusterFromOptions(opts),
\* which takes the reference on the tracer.
ConnectFromOptions ==
  /\ connectPc = "start"
  /\ IF connSpec.Scheme = "http"
       THEN /\ connectPc' = "returned"
            /\ connectErr' = HTTPSchemeError
            /\ UNCHANGED <<sb, tracer, tracerRefs>>
       ELSE /\ connectPc' = "options"
            /\ sb' = clusterFromOptions(opts)
            /\ tracer' = TRUE
            /\ tracerRefs' = tracerRefs + 1
            /\ UNCHANGED connectErr
  /\ UNCHANGED <<clients, clusterClient, connectFrame>>

\* err = cluster.parseExtraConnStrOptions(connSpec); an error ends Connect.
ConnectExtraOptions ==
  /\ connectPc = "options"
  /\ \E r \in {parseExtraConnStrOptions(sb, connSpec.Options)} :
       /\ sb' = r.sb
       /\ connectErr' = r.err
       /\ connectPc' = IF r.err # NilError THEN "returned" ELSE "bootstrap"
  /\ UNCHANGED <<clients, clusterClient, tracer, tracerRefs, connectFrame>>

\* cli := newClient(cluster, csb); buildConfig(); connect(): an error of
\* either ends Connect; otherwise cluster.clusterClient = cli and the
\* Cluster is returned.
ConnectBootstrap ==
  /\ connectPc = "bootstrap"
  /\ connectPc' = "returned"
  /\ \/ \E err \in BootstrapOutcomes(1) \ {NilError} :
          /\ clients' = <<bootstrap(0, err)>>
          /\ connectErr' = err
          /\ UNCHANGED clusterClient
     \/ \E g \in BOOLEAN :
          /\ clients' = <<[newClient(0) EXCEPT !.gcccp = g]>>
          /\ clusterClient' = 1
          /\ UNCHANGED connectErr
  /\ UNCHANGED <<sb, tracer, tracerRefs, connectFrame>>

ConnectNext == ConnectFromOptions \/ ConnectExtraOptions \/ ConnectBootstrap

\* One call of Connect, on any of the inputs.
ConnectSpec == ConnectInit /\ [][ConnectNext]_vars

\* Connect has returned a Cluster.
Connected == connectPc = "returned" /\ connectErr = NilError

\* ------------------------------------------------------------------- claims
\* A transport session was opened for client h: its bootstrap did not fail.
Opened(h) == clients[h].bootstrapError = NilError

RegisteredClients == {connections[f] : f \in Registered}

\* C1: between construction and Close, at most one client is ever made for a
\* fingerprint, whatever the number of goroutines calling Bucket with it, and
\* all the Buckets returned for it are bound to that one client.
C1_OneClientPerFingerprint ==
  ~closeCalled =>
    /\ \A h1, h2 \in BucketClients :
         clients[h1].bucket = clients[h2].bucket => h1 = h2
    /\ \A b1, b2 \in buckets : b1[1] = b2[1] => b1[2] = b2[2]

\* C2: for Bucket calls made one after the other with no Close, two returned
\* Buckets share a client iff their fingerprints are equal: every client made
\* is the registered one of its fingerprint (a call on a registered
\* fingerprint makes none), and every Bucket is bound to the registered
\* client of its fingerprint.
C2_SequentialSharing ==
  ~closeCalled =>
    /\ \A h \in BucketClients : connections[Hash(clients[h].bucket)] = h
    /\ \A b \in buckets : connections[b[1]] = b[2]
    /\ \A b1, b2 \in buckets : (b1[2] = b2[2]) <=> (b1[1] = b2[1])
    /\ returned.op = "Bucket" =>
         <<Hash(returned.log[2]), returned.cli>> \in buckets

\* A Bucket call has just shared the registered client of its fingerprint
\* while another fingerprint has a client of its own.
C2_Witness ==
  /\ ~closeCalled
  /\ returned.op = "Bucket"
  /\ returned.log[1] = "sharing"
  /\ Cardinality(buckets) = 2

\* C3: a client whose bootstrap failed, once returned in a Bucket, stays the
\* registered client of its fingerprint until Close, so that every later
\* Bucket call with that fingerprint returns it and connects nothing.
C3_FailedClientStaysRegistered ==
  ~closeCalled =>
    \A b \in buckets :
      clients[b[2]].bootstrapError # NilError => connections[b[1]] = b[2]

\* C4: randomClient never returns a client with a bootstrap error or one
\* that did not report connected, and returns none only when every
\* registered client was asked and none reported connected.
C4_RandomClientSelectsConnected ==
  returned.op = "randomClient" =>
    /\ returned.cli # NilClient =>
         /\ clients[returned.cli].bootstrapError = NilError
         /\ \E i \in 1..Len(returned.log) : returned.log[i] = <<returned.cli, "up">>
    /\ returned.cli = NilClient =>
         \A h \in RegisteredClients :
           \E i \in 1..Len(returned.log) :
             returned.log[i][1] = h /\ returned.log[i][2] # "up"

\* randomClient has returned a connected client after its range had first
\* produced a client that is failed or not connected.
C4_Witness ==
  /\ returned.op = "randomClient"
  /\ returned.cli # NilClient
  /\ Len(returned.log) = 2

\* The error the range met on the entry e = <<client, what connected() said>>.
ScanError(e) ==
  IF clients[e[1]].bootstrapError # NilError
    THEN clients[e[1]].bootstrapError
    ELSE IF e[2] = "error" THEN ClientError("connected", e[1]) ELSE NilError

\* The error of the first entry of log that had one; nil when none had one.
FirstScanError(log) ==
  IF \E i \in 1..Len(log) : ScanError(log[i]) # NilError
    THEN LET first == CHOOSE i \in 1..Len(log) :
                        /\ ScanError(log[i]) # NilError
                        /\ \A j \in 1..(i - 1) : ScanError(log[j]) = NilError
         IN ScanError(log[first])
    ELSE NilError

\* C5: when randomClient selects no client it fails with "not connected" if
\* the range met no error, and otherwise with the error of the first entry,
\* in the order of the range, that had a bootstrap or connectivity error.
C5_FirstErrorWins ==
  returned.op = "randomClient" /\ returned.cli = NilClient =>
    returned.err = IF FirstScanError(returned.log) = NilError
                     THEN NotConnectedError
                     ELSE FirstScanError(returned.log)

\* randomClient has failed after meeting the errors of two different clients.
C5_Witness ==
  /\ returned.op = "randomClient"
  /\ returned.cli = NilClient
  /\ Len(returned.log) = 2
  /\ ScanError(returned.log[1]) # NilError
  /\ ScanError(returned.log[2]) # NilError

\* The registry is empty and the cluster-level client does not support GCCCP,
\* and a resolution has just returned.
C6_Case ==
  /\ returned.op \in {"clusterOrRandomClient", "randomClient"}
  /\ Registered = {}
  /\ clusterClient # NilClient
  /\ ~clients[clusterClient].gcccp

\* C6 as stated: in that case the resolution does not use the client and
\* falls through to the fallback, failing with "not connected".
C6_FailsNotConnected ==
  C6_Case => returned.cli = NilClient /\ returned.err = NotConnectedError

\* C6 as amended: in that case the resolution does not use the client and
\* fails in clusterOrRandomClient itself, without the fallback scan, with the
\* "cluster does not support cluster-level queries" error.
C6_FailsNoClusterLevelQueries ==
  C6_Case =>
    /\ returned.op = "clusterOrRandomClient"
    /\ returned.cli = NilClient
    /\ returned.err = NoClusterLevelQueriesError

\* A resolution has returned on an empty registry with a cluster-level
\* client that does not support GCCCP.
C6_Witness ==
  /\ C6_Case
  /\ clients[clusterClient].bootstrapError = NilError
  /\ ~clients[clusterClient].closed

\* The clients the closes of log were made on, the cluster-level one apart.
EntryCloses(log) == {i \in 1..Len(log) : log[i][1] # 1}

\* C7: Close closes every registry entry, once each, whatever the closes
\* return, then the cluster-level client if there is one, and leaves the map
\* empty: with k entries when it began, exactly k entry closes are made.
C7_CloseClosesEveryEntry ==
  /\ \A t \in Threads :
       /\ pc[t] = "c_range" =>
            /\ {closeLog[t][i][1] : i \in 1..Len(closeLog[t])} \cup RegisteredClients
                 = pending[t]
            /\ Len(closeLog[t]) + Cardinality(Registered) = Cardinality(pending[t])
       /\ pc[t] \in {"c_slotclose", "c_decref"} =>
            /\ Registered = {}
            /\ {closeLog[t][i][1] : i \in EntryCloses(closeLog[t])} = pending[t]
            /\ Cardinality(EntryCloses(closeLog[t])) = Cardinality(pending[t])
       /\ pc[t] = "c_decref" /\ clusterClient # NilClient =>
            closeLog[t][Len(closeLog[t])][1] = clusterClient
  /\ returned.op = "Close" =>
       /\ Registered = {}
       /\ \A h \in BucketClients : clients[h].closed
       /\ clusterClient # NilClient =>
            /\ clients[clusterClient].closed
            /\ returned.log[Len(returned.log)][1] = clusterClient

\* Close has returned after the closes of two entries, of which the first
\* failed, and of the cluster-level client.
C7_Witness ==
  /\ returned.op = "Close"
  /\ Len(returned.log) = 3
  /\ Cardinality(EntryCloses(returned.log)) = 2
  /\ returned.log[1][2] # NilError

\* The error of the first close of log that failed; nil when none failed.
FirstCloseError(log) ==
  IF \E i \in 1..Len(log) : log[i][2] # NilError
    THEN LET first == CHOOSE i \in 1..Len(log) :
                        /\ log[i][2] # NilError
                        /\ \A j \in 1..(i - 1) : log[j][2] = NilError
         IN log[first][2]
    ELSE NilError

\* C8: Close returns the error of the first close that failed, in the order
\* the closes were made, and nil when none failed.
C8_FirstCloseErrorReturned ==
  returned.op = "Close" => returned.err = FirstCloseError(returned.log)

\* C9: the reference taken on the tracer at construction is released exactly
\* once: no Close releases it a second time.
C9_TracerReleasedOnce == tracerRefs >= 0

\* C10: when a Close returns that was called after every Bucket call, the
\* concurrent ones included, had returned, every session this Cluster opened
\* has been closed, and none is left out of reach of the registry.
C10_NoSessionLeaked ==
  returned.op = "Close" /\ ~bucketAfterClose =>
    /\ Registered = {}
    /\ \A h \in ClientIds : Opened(h) => clients[h].closed

\* C11: WaitUntilReady fails at once with "cluster is not connected",
\* calling nothing on any client, exactly when c.clusterClient is nil,
\* however many clients are registered; otherwise what it returns is what
\* that client's provider reports, the provider being asked for the desired
\* state, ClusterStateOnline when none was given.
C11_WaitUntilReadyNeedsClusterClient ==
  /\ returned.op = "WaitUntilReady" =>
       IF clusterClient = NilClient
         THEN returned = Result("WaitUntilReady", NilClient, ClusterNotConnectedError, <<>>)
         ELSE /\ returned.cli = clusterClient
              /\ returned.err # ClusterNotConnectedError
              /\ returned.err \in {ClientError("provider", clusterClient)}
                                    \cup WaitOutcomes(clusterClient)
              /\ returned.err = ClientError("provider", clusterClient)
                   <=> returned.log = <<>>
              /\ returned.log # <<>> => returned.log[1] \in DesiredStates \ {UnsetState}
  /\ \A t \in Threads :
       pc[t] = "w_wait" =>
         /\ cli[t] = clusterClient
         /\ \A r \in waitResults(cli[t], arg[t]) :
              r.log # <<>> =>
                r.log[1] = IF arg[t] = UnsetState THEN ClusterStateOnline ELSE arg[t]

\* WaitUntilReady has failed for want of a cluster-level client while
\* bucket-level clients with no bootstrap error are registered.
C11_Witness ==
  /\ returned.op = "WaitUntilReady"
  /\ returned.err = ClusterNotConnectedError
  /\ \E h \in RegisteredClients : Opened(h)

\* C12: in every Cluster that Connect returns, each of the eight timeouts of
\* c.sb is > 0, whatever the timeouts of the options and whatever integers
\* the connection string gives for the four timeout keys.
C12_TimeoutsPositive ==
  Connected => \A n \in TimeoutNames : IsPositive(sb[n])

\* x on twice as many bytes, the sign kept.
Widen(x) ==
  x \o [i \in 1..Len(x) |-> IF IsNegative(x) THEN ByteBase - 1 ELSE 0]

\* The string is a decimal integer: digits, after an optional sign.
IsInteger(str) ==
  LET digits == IF str # <<>> /\ str[1] \in {"+", "-"} THEN Tail(str) ELSE str
  IN digits # <<>> /\ \A i \in 1..Len(digits) : IsDigit(digits[i])

\* The number the digits from the i-th on add to n, on the bytes of n.
RECURSIVE DecimalFrom(_, _, _)
DecimalFrom(digits, i, n) ==
  IF i > Len(digits)
    THEN n
    ELSE DecimalFrom(digits, i + 1, ScaleFrom(n, 10, 1, DigitOf(digits[i])))

\* The decimal integer str taken as milliseconds, in nanoseconds, computed
\* on 128 bits, where nothing wraps for the strings tried here.
ExactMillis(str) ==
  LET signed == str[1] \in {"+", "-"}
      n == DecimalFrom(IF signed THEN Tail(str) ELSE str, 1, Widen(Int64(0)))
      ms == IF str[1] = "-" THEN Negate(n) ELSE n
  IN ScaleFrom(ScaleFrom(ms, 1000, 1, 0), 1000, 1, 0)

\* The keys the connection string gives a value for.
GivenKeys == {k \in DOMAIN connSpec.Options : connSpec.Options[k] # <<>>}
LastValue(k) == connSpec.Options[k][Len(connSpec.Options[k])]

\* C13: once Connect is past the options of a connection string of scheme
\* other than http, when the last value of every given key is an integer,
\* each of those timeouts is that many milliseconds; and when the last
\* value of some given key is not an integer, Connect has returned the
\* error of such a key, no Cluster, and has made no client.
C13_LastValueSetsTimeout ==
  connectPc \in {"bootstrap", "returned"} /\ connSpec.Scheme # "http" =>
    IF \A k \in GivenKeys : IsInteger(LastValue(k))
      THEN /\ \A k \in GivenKeys : connectErr # OptionError(k)
           /\ \A k \in GivenKeys :
                Widen(sb[OptionTimeout[k]]) = ExactMillis(LastValue(k))
      ELSE /\ connectPc = "returned"
           /\ \E k \in GivenKeys : ~IsInteger(LastValue(k)) /\ connectErr = OptionError(k)
           /\ clients = <<>>
           /\ clusterClient = NilClient

\* C14: no goroutine changes c.connections or c.clusterClient while another
\* reads or changes it: Close is never inside its deleting range while
\* another goroutine is inside randomClient's range over the same map, and
\* no unsynchronised access ever stops the process.
C14_MutualExclusion ==
  /\ ~crashed
  /\ \A t, u \in Threads : ~(pc[t] = "c_range" /\ pc[u] = "r_scan")

\* C15 as stated: c.clusterClient is nil or a client that supports GCCCP, in
\* every state from the return of Connect on.
C15_SlotSupportsGCCCP ==
  clusterClient = NilClient \/ clients[clusterClient].gcccp

\* Some Bucket call has been through its first critical section.
BucketCalled == buckets # {} \/ \E t \in Threads : pc[t] \in BucketPcs

\* C15 as amended: from the first Bucket call's first critical section on,
\* c.clusterClient is nil or a client that supports GCCCP; between the
\* return of Connect and that moment it is the client Connect made,
\* whatever that client supports.
C15_SlotSupportsGCCCPAfterBucket ==
  /\ BucketCalled => clusterClient = NilClient \/ clients[clusterClient].gcccp
  /\ ~BucketCalled /\ ~closeCalled => clusterClient = 1 /\ ~clients[1].closed

\* Two Buckets have been returned on a Cluster whose cluster-level client
\* did not support GCCCP: Bucket closed it and c.clusterClient is nil.
C15_Witness ==
  /\ Cardinality(buckets) = 2
  /\ ~closeCalled
  /\ clusterClient = NilClient
  /\ ~clients[1].gcccp /\ clients[1].closed

\* C16: the first step of Bucket takes the exclusive lock and, before the
\* registry is looked at, closes a cluster-level client that does not support
\* GCCCP and sets c.clusterClient to nil, whatever close() returns; it leaves
\* a client that supports GCCCP, and c.clusterClient, as they are.  Once nil,
\* c.clusterClient stays nil, and no later clusterOrRandomClient is answered
\* from it.
C16_LazyRetire ==
  [][ /\ \A t \in Threads :
           pc[t] = "idle" /\ pc'[t] = "b_get" =>
             /\ CanLock
             /\ connections' = connections
             /\ IF clusterClient # NilClient /\ ~clients[clusterClient].gcccp
                  THEN /\ clusterClient' = NilClient
                       /\ clients'[clusterClient].closed
                       /\ returned'.op = "retire"
                       /\ returned'.cli = clusterClient
                  ELSE /\ clusterClient' = clusterClient
                       /\ clients' = clients
      /\ clusterClient = NilClient => clusterClient' = NilClient
      /\ returned'.op = "clusterOrRandomClient" => clusterClient # NilClient
    ]_vars

\* Bucket has just given up the cluster-level client although its close()
\* failed.
C16_Witness ==
  /\ returned.op = "retire"
  /\ returned.err # NilError
  /\ clusterClient = NilClient
  /\ clients[returned.cli].closed

\* The two functions a provider getter is answered by.
ResolveOps == {"clusterOrRandomClient", "randomClient"}

\* C17: while c.clusterClient is a client that supports GCCCP, a provider
\* getter of every class can return, and whatever a getter returns is taken
\* from that very client: its provider of the class asked for, or the error
\* of its own accessor, whatever the registry holds.  The range over the
\* registry runs, and randomClient answers, only while c.clusterClient is nil.
C17_ProviderOfClusterClient ==
  /\ \A t \in Threads : pc[t] = "r_scan" => clusterClient = NilClient
  /\ returned.op = "randomClient" => clusterClient = NilClient
  /\ clusterClient # NilClient /\ clients[clusterClient].gcccp =>
       /\ returned.op \in ResolveOps =>
            /\ returned.op = "clusterOrRandomClient"
            /\ returned.cli = clusterClient
            /\ returned.err = NilError
            /\ returned.log = <<>>
            /\ IF returned.providerErr = NilError
                 THEN /\ returned.provider.cli = clusterClient
                      /\ returned.provider.class \in RequestClasses
                 ELSE /\ returned.providerErr = ClientError("getProvider", clusterClient)
                      /\ returned.provider = NoProvider
       /\ (\E t \in Threads : Begin(t)) /\ CanRLock =>
            \A class \in RequestClasses :
              ENABLED ( /\ \E t \in Threads : ResolveSlot(t)
                        /\ returned'.provider = [class |-> class, cli |-> clusterClient]
                        /\ returned'.providerErr = NilError )

\* The analytics getter has returned the provider of the cluster-level client
\* on a registry of two clients, one of which failed to bootstrap.
C17_Witness ==
  /\ clusterClient # NilClient
  /\ clients[clusterClient].gcccp
  /\ returned.op = "clusterOrRandomClient"
  /\ returned.provider = [class |-> "analytics", cli |-> clusterClient]
  /\ Cardinality(Registered) = 2
  /\ \E f \in Registered : clients[connections[f]].bootstrapError # NilError

\* Goroutine t holds neither c.connectionsLock nor c.clusterLock.
HoldsNoLock(t) ==
  /\ connectionsLock.writer # t
  /\ t \notin connectionsLock.readers
  /\ clusterLock # t

\* No goroutine but t holds c.connectionsLock.
FreeBut(t) ==
  /\ connectionsLock.writer \in {NoThread, t}
  /\ connectionsLock.readers \subseteq {t}

\* C18: a goroutine that is building and connecting the new client of a
\* Bucket holds no lock, and does not hold up another goroutine: a provider
\* getter can begin, and its range can go on and end; and while no third
\* goroutine holds c.connectionsLock, a Bucket of another name can begin, look
\* its client up, and register the client it made.
C18_ConnectOutsideLock ==
  \A t \in Threads : pc[t] = "b_connect" /\ ~crashed =>
    /\ HoldsNoLock(t)
    /\ \A u \in Threads \ {t} :
         /\ Begin(u) => ENABLED ResolveSlot(u)
         /\ pc[u] = "r_scan" => ENABLED (RandomScan(u) \/ RandomFinish(u))
         /\ FreeBut(t) =>
              /\ Begin(u) =>
                   \E n \in BucketNames \ {arg[t]} : ENABLED BucketRetire(u, n)
              /\ pc[u] = "b_get" /\ arg[u] # arg[t] => ENABLED BucketGetClient(u)
              /\ pc[u] = "b_connect" /\ arg[u] # arg[t] /\ Len(clients) <= MaxClients =>
                   ENABLED BucketInsert(u)

\* While one goroutine is still connecting the client of its Bucket, the
\* Bucket of another name has returned with the client it made.
C18_Witness ==
  \E t \in Threads :
    /\ pc[t] = "b_connect"
    /\ returned.op = "Bucket"
    /\ Len(returned.log) = 2
    /\ returned.log[1] = "creating"
    /\ returned.log[2] # arg[t]

\* The step is the first of a provider getter, on goroutine t.
ResolveBegan(t) ==
  /\ Begin(t)
  /\ \/ pc'[t] = "r_scan"
     \/ returned'.op \in ResolveOps /\ pc' = pc

\* The step is a later one of the provider getter of goroutine t.
ResolveWentOn(t) ==
  /\ pc[t] = "r_scan"
  /\ scanned'[t] # scanned[t] \/ pc'[t] = "idle"

\* C19: no step of a provider getter, of whatever class and whether the
\* getter then succeeds or fails, changes c.connections, c.clusterClient, any
\* client (its bootstrap error, its being open or closed), the tracer or its
\* reference count; and the goroutine of a getter that has returned holds no
\* lock.
C19_ResolveHasNoSideEffect ==
  [][ \A t \in Threads :
        ResolveBegan(t) \/ ResolveWentOn(t) =>
          /\ connections' = connections
          /\ clusterClient' = clusterClient
          /\ clients' = clients
          /\ tracer' = tracer
          /\ tracerRefs' = tracerRefs
          /\ pc'[t] = "idle" =>
               /\ returned'.op \in ResolveOps
               /\ connectionsLock'.writer # t
               /\ t \notin connectionsLock'.readers
               /\ clusterLock' # t
    ]_vars

\* A getter has returned an error after its range had gone over two
\* clients, and no goroutine holds c.connectionsLock.
C19_Witness ==
  /\ returned.op = "randomClient"
  /\ returned.err # NilError
  /\ Len(returned.log) = 2
  /\ connectionsLock.readers = {}
  /\ connectionsLock.writer = NoThread

\* C20: once Close has been called and has returned, with calls made one
\* after the other, no provider getter and no WaitUntilReady returns, or
\* waits on, a client that has been closed.
C20_NoClosedClientAfterClose ==
  /\ closeCalled
  /\ returned.op \in ResolveOps \cup {"WaitUntilReady"}
  /\ returned.cli # NilClient
  => ~clients[returned.cli].closed

\* C21: as long as Close has not been called, a registry that holds a client
\* goes with a c.clusterClient that is nil or supports GCCCP; and the error
\* "the cluster does not support cluster-level queries" is returned only
\* while the registry is empty and no Bucket call has been through its first
\* critical section.
C21_RegistryImpliesUsableSlot ==
  ~closeCalled =>
    /\ Registered # {} => clusterClient = NilClient \/ clients[clusterClient].gcccp
    /\ returned.err = NoClusterLevelQueriesError =>
         /\ returned.op = "clusterOrRandomClient"
         /\ Registered = {}
         /\ ~BucketCalled

\* A provider getter has been answered from the one client of the registry,
\* on a Cluster whose cluster-level client did not support GCCCP and was
\* given up by Bucket.
C21_Witness ==
  /\ ~closeCalled
  /\ Cardinality(Registered) = 1
  /\ clusterClient = NilClient
  /\ ~clients[1].gcccp
  /\ returned.op = "randomClient"
  /\ returned.err = NilError
  /\ returned.cli \in RegisteredClients

\* C22: under fair scheduling, every call that has begun on a goroutine
\* returns (or, in this bounded model, the bound on the clients made is
\* reached).
C22_EveryOperationCompletes ==
  \A t \in Threads :
    (pc[t] # "idle") ~> (pc[t] = "idle" \/ Len(clients) > MaxClients)

====
